---------------------------- MODULE Spec2Model ----------------------------
(***************************************************************************)
(* Model of pyomo/gdp/plugins/cuttingplane.py: the cutting-plane loop of   *)
(* CuttingPlane_Transformation._generate_cuttingplanes, the cut            *)
(* construction of _create_cuts and the Fourier-Motzkin projector          *)
(* (fourier_motzkin_elimination, fm_elimination, add_linear_constraints,   *)
(* scalar_multiply_linear_constraint, get_constraint_exprs).               *)
(*                                                                         *)
(* Numbers.  Python numbers are modelled as extended rationals <<n, d>>    *)
(* in lowest terms with d >= 0: d > 0 is the finite value n/d, <<1, 0>>    *)
(* and <<-1, 0>> are float("inf") and -float("inf"), <<0, 0>> is nan.      *)
(* This arithmetic is exact.  The systems the projector is run on alone   *)
(* (SpecFM) have small dyadic numbers, on which IEEE doubles compute the   *)
(* same.  The rounding of doubles is modelled where it decides the         *)
(* outcome, in the scaling of the eliminated variable's coefficient        *)
(* (SpecPivot).  None is the empty tuple.                                  *)
(***************************************************************************)
EXTENDS Integers, Sequences, FiniteSets, TLC

None == <<>>

Abs(n) == IF n < 0 THEN -n ELSE n

RECURSIVE GCD(_, _)
GCD(a, b) == IF b = 0 THEN a ELSE GCD(b, a % b)

\* The number n/d in lowest terms with a non-negative denominator.
Norm(n, d) ==
    LET g == GCD(Abs(n), Abs(d))
        s == IF d < 0 THEN -1 ELSE 1
    IN  IF g = 0 THEN <<0, 0>> ELSE <<(s * n) \div g, (s * d) \div g>>

Num(k) == <<k, 1>>
Zero == <<0, 1>>
One == <<1, 1>>
Inf == <<1, 0>>

IsInf(a) == a[2] = 0 /\ a[1] # 0
IsNan(a) == a[2] = 0 /\ a[1] = 0

FNeg(a) == <<-a[1], a[2]>>
FAdd(a, b) ==
    IF IsInf(a) /\ IsInf(b)
    THEN (IF a[1] = b[1] THEN a ELSE <<0, 0>>)
    ELSE Norm(a[1] * b[2] + b[1] * a[2], a[2] * b[2])
FSub(a, b) == FAdd(a, FNeg(b))
FMul(a, b) == Norm(a[1] * b[1], a[2] * b[2])
\* a / b for b # 0 (Python raises ZeroDivisionError when b = 0).
FDiv(a, b) == Norm(a[1] * b[2], a[2] * b[1])
FAbs(a) == <<Abs(a[1]), a[2]>>
FLess(a, b) == a[1] * b[2] < b[1] * a[2]
FLeq(a, b) == ~IsNan(a) /\ ~IsNan(b) /\ ~FLess(b, a)
FIsZero(a) == a[1] = 0 /\ a[2] # 0

(***************************************************************************)
(* Linear constraint representation (get_linear_constraint_repn): a record *)
(* with 'lower', 'upper' (a number or None) and 'body', a map from         *)
(* variable to coefficient whose key None carries the constant.  A point   *)
(* maps variables to numbers; a variable it does not map counts 0.         *)
(***************************************************************************)
NoneKey == "None"

Row(body, lower, upper) == [body |-> body, lower |-> lower, upper |-> upper]

Coef(cons, v) == IF v \in DOMAIN cons.body THEN cons.body[v] ELSE None

CoefOrZero(cons, v) == IF Coef(cons, v) = None THEN Zero ELSE Coef(cons, v)

RatOf(u) == Norm(u[1], u[2])

\* The value of the body at p, as an unreduced fraction <<n, d>>, d > 0.
RECURSIVE BodySum(_, _, _)
BodySum(keys, cons, p) ==
    IF keys = {} THEN <<0, 1>>
    ELSE LET v == CHOOSE w \in keys : TRUE
             c == cons.body[v]
             x == IF v = NoneKey THEN One ELSE IF v \in DOMAIN p THEN p[v] ELSE Zero
             r == BodySum(keys \ {v}, cons, p)
         IN  <<c[1] * x[1] * r[2] + r[1] * c[2] * x[2], c[2] * x[2] * r[2]>>

RowValue(cons, p) == BodySum(DOMAIN cons.body, cons, p)


(***************************************************************************)
(* scalar_multiply_linear_constraint: every entry of the body (the         *)
(* constant included) is multiplied; a negative scalar flips the bounds.   *)
(***************************************************************************)
ScaleBody(cons, scalar) ==
    [v \in DOMAIN cons.body |-> FMul(cons.body[v], scalar)]

\* Mutant: the bounds are scaled but never change sides.
scalar_multiply_noflip(cons, scalar) ==
    Row(ScaleBody(cons, scalar),
        IF cons.lower # None THEN FMul(cons.lower, scalar) ELSE None,
        IF cons.upper # None THEN FMul(cons.upper, scalar) ELSE None)

scalar_multiply_linear_constraint(cons, scalar) ==
    IF FLeq(Zero, scalar)
    THEN Row(ScaleBody(cons, scalar),
             IF cons.lower # None THEN FMul(cons.lower, scalar) ELSE None,
             IF cons.upper # None THEN FMul(cons.upper, scalar) ELSE None)
    ELSE IF cons.lower # None
         THEN Row(ScaleBody(cons, scalar),
                  IF cons.upper # None THEN FMul(scalar, cons.upper) ELSE None,
                  FMul(scalar, cons.lower))
         ELSE IF cons.upper # None
              THEN Row(ScaleBody(cons, scalar), FMul(scalar, cons.upper), None)
              ELSE Row(ScaleBody(cons, scalar), None, None)

(***************************************************************************)
(* add_linear_constraints: the sum of two rows over the union of their     *)
(* keys.  bounds_good is false, and the code raises RuntimeError, when the *)
(* rows share no bound side.                                               *)
(***************************************************************************)
bounds_good(cons1, cons2) ==
    \/ cons1.lower # None /\ cons2.lower # None
    \/ cons1.upper # None /\ cons2.upper # None

add_linear_constraints(cons1, cons2) ==
    LET all_vars == DOMAIN cons1.body \cup DOMAIN cons2.body
        body == [v \in all_vars |->
                    IF v = NoneKey
                    THEN FAdd(cons1.body[NoneKey], cons2.body[NoneKey])
                    ELSE IF Coef(cons2, v) # None /\ Coef(cons1, v) # None
                         THEN FAdd(cons1.body[v], cons2.body[v])
                         ELSE IF Coef(cons1, v) # None
                              THEN cons1.body[v]
                              ELSE cons2.body[v]]
    IN  Row(body,
            IF cons1.lower # None /\ cons2.lower # None
            THEN FAdd(cons1.lower, cons2.lower) ELSE None,
            IF cons1.upper # None /\ cons2.upper # None
            THEN FAdd(cons1.upper, cons2.upper) ELSE None)

(***************************************************************************)
(* fourier_motzkin_elimination, preprocessing: every row with both bounds  *)
(* keeps its lower bound in place and a copy with the upper bound only is  *)
(* appended to the list.                                                   *)
(***************************************************************************)
HasBoth(cons) == cons.lower # None /\ cons.upper # None

\* Mutant: the rows are left as they are.
SplitEqualities_none(constraints) == constraints

SplitEqualities(constraints) ==
    LET inPlace == [i \in 1..Len(constraints) |->
                       IF HasBoth(constraints[i])
                       THEN Row(constraints[i].body, constraints[i].lower, None)
                       ELSE constraints[i]]
        both == SelectSeq(constraints, HasBoth)
        geq == [i \in 1..Len(both) |-> Row(both[i].body, None, both[i].upper)]
    IN  inPlace \o geq

(***************************************************************************)
(* fm_elimination, one level of the recursion for the popped variable      *)
(* the_var.  The list is consumed from its end (constraints.pop()).        *)
(***************************************************************************)
Reverse(s) == [i \in 1..Len(s) |-> s[Len(s) + 1 - i]]

Skipped(cons, the_var) ==
    Coef(cons, the_var) = None \/ FIsZero(Coef(cons, the_var))

\* The row is appended to leq_list (lines 633-637 and 647-651).
IsLeq(cons, the_var) ==
    /\ ~Skipped(cons, the_var)
    /\ \/ cons.lower # None /\ FLess(Coef(cons, the_var), Zero)
       \/ cons.lower = None /\ cons.upper # None
                            /\ FLess(Zero, Coef(cons, the_var))

\* The row is appended to geq_list (lines 639-642 and 653-656).
IsGeq(cons, the_var) ==
    /\ ~Skipped(cons, the_var)
    /\ \/ cons.lower # None /\ ~FLess(Coef(cons, the_var), Zero)
       \/ cons.lower = None /\ cons.upper # None
                            /\ ~FLess(Zero, Coef(cons, the_var))

\* Mutant: the row is negated, not divided by its coefficient.
LeqScalar_unscaled(cons, the_var) == Num(-1)

LeqScalar(cons, the_var) == FDiv(Num(-1), Coef(cons, the_var))
GeqScalar(cons, the_var) == FDiv(Num(1), Coef(cons, the_var))

leq_list(constraints, the_var) ==
    LET Test(c) == IsLeq(c, the_var)
        sel == SelectSeq(Reverse(constraints), Test)
    IN  [i \in 1..Len(sel) |->
            scalar_multiply_linear_constraint(sel[i], LeqScalar(sel[i], the_var))]

geq_list(constraints, the_var) ==
    LET Test(c) == IsGeq(c, the_var)
        sel == SelectSeq(Reverse(constraints), Test)
    IN  [i \in 1..Len(sel) |->
            scalar_multiply_linear_constraint(sel[i], GeqScalar(sel[i], the_var))]

waiting_list(constraints, the_var) ==
    LET Test(c) == Skipped(c, the_var)
    IN  SelectSeq(Reverse(constraints), Test)

\* add_linear_constraints raises for some pair of leq_list x geq_list.
FmRaises(constraints, the_var) ==
    LET leq == leq_list(constraints, the_var)
        geq == geq_list(constraints, the_var)
    IN  \E i \in 1..Len(leq), j \in 1..Len(geq) : ~bounds_good(leq[i], geq[j])

\* Mutant: the i-th leq row is added to the i-th geq row only.
FmStep_zip(constraints, the_var) ==
    LET leq == leq_list(constraints, the_var)
        geq == geq_list(constraints, the_var)
        n == IF Len(leq) < Len(geq) THEN Len(leq) ELSE Len(geq)
        sums == [k \in 1..n |-> add_linear_constraints(leq[k], geq[k])]
    IN  sums \o waiting_list(constraints, the_var)

\* The list handed to the recursive call: the pairwise sums, then the
\* rows that did not have the variable.
FmStep(constraints, the_var) ==
    LET leq == leq_list(constraints, the_var)
        geq == geq_list(constraints, the_var)
        n == Len(geq)
        sums == [k \in 1..(Len(leq) * n) |->
                    add_linear_constraints(leq[((k - 1) \div n) + 1],
                                           geq[((k - 1) % n) + 1])]
    IN  sums \o waiting_list(constraints, the_var)


(***************************************************************************)
(* State.  The first group is _generate_cuttingplanes and the models it    *)
(* works on, the second a run of the projector.                            *)
(***************************************************************************)
VARIABLES
    pc,                 \* position in _generate_cuttingplanes
    has_objective,      \* instance_rBigM has an active objective
    results,            \* verify_successful_solve of the last relaxed solve
    epsilon,            \* self._config.EPS
    improving,
    prev_obj,
    rBigM_objVal,
    cuts,               \* the value _create_cuts returned
    x_rbigm,            \* values of the variables of instance_rBigM
    x_star,             \* transBlock_rCHull.xstar
    x_chull,            \* values of the variables of instance_rCHull
    bigM_cuts,          \* transBlock.cuts
    rBigM_cuts,         \* transBlock_rBigM.cuts
    rBigM_solves,       \* history: calls of opt.solve(instance_rBigM)
    separation_solves,  \* history: calls of opt.solve(instance_rCHull)
    outcome,            \* history: the statement that ended the loop
    return_value,       \* what _generate_cuttingplanes handed to _apply_to
    fm_pc,              \* position in fourier_motzkin_elimination
    constraints,        \* the list of rows (mutated in place by the code)
    vars_to_eliminate,  \* the set the variables are popped from
    fm_input,           \* history: the rows as the caller passed them
    fm_elim,            \* history: the set as the caller passed it
    fp_pc,              \* position in the scaling of a pair of rows
    fp_rows,            \* the two rows: coefficient of the_var, bound side
    fp_scaled,          \* their coefficients of the_var after the scaling
    fp_sum              \* the coefficient of the_var in their sum

loop_vars == <<pc, has_objective, results, epsilon, improving, prev_obj, rBigM_objVal,
               cuts, x_rbigm, x_star, x_chull, bigM_cuts, rBigM_cuts,
               rBigM_solves, separation_solves, outcome, return_value>>
fm_vars == <<fm_pc, constraints, vars_to_eliminate, fm_input, fm_elim>>
fp_vars == <<fp_pc, fp_rows, fp_scaled, fp_sum>>
vars == <<loop_vars, fm_vars, fp_vars>>

(***************************************************************************)
(* Bounded inputs of the projector: systems of up to MaxRows rows over one *)
(* remaining variable x and the variables d1, d2, with integer             *)
(* coefficients, taken in a fixed order from FmRows.                       *)
(***************************************************************************)
MaxRows == 3

FmKeep == {"x"}
FmAux == {"d1", "d2"}
FmVarSeq == <<"x", "d1", "d2">>

\* <<coefficient of x, of d1, of d2, constant>>
FmBodies ==
    << <<1, -1, -1, 0>>, <<0, -2, 0, 1>>, <<0, 1, 2, 0>>,
       <<-1, 0, 2, -1>>, <<1, 1, 0, 0>> >>

\* <<lower, upper>>
FmBounds == << <<Num(0), None>>, <<None, Num(1)>>, <<Num(0), Num(1)>> >>

\* The body map holds the variables with a nonzero coefficient (a standard
\* representation lists no others) and the constant under None.
MkBody(c) ==
    [v \in {NoneKey} \cup {FmVarSeq[i] : i \in {j \in 1..3 : c[j] # 0}} |->
        IF v = NoneKey THEN Num(c[4])
        ELSE Num(c[CHOOSE i \in 1..3 : FmVarSeq[i] = v])]

FmRows ==
    [k \in 1..(Len(FmBodies) * Len(FmBounds)) |->
        LET b == FmBodies[((k - 1) \div Len(FmBounds)) + 1]
            bd == FmBounds[((k - 1) % Len(FmBounds)) + 1]
        IN  Row(MkBody(b), bd[1], bd[2])]

RECURSIVE IncreasingSeqs(_, _)
\* The strictly increasing sequences of length n over 1..top.
IncreasingSeqs(n, top) ==
    IF n = 0 THEN {<<>>}
    ELSE UNION {{Append(s, t) : s \in IncreasingSeqs(n - 1, t - 1)} : t \in 1..top}

FmSystems ==
    UNION {{[i \in 1..n |-> FmRows[idx[i]]] : idx \in IncreasingSeqs(n, Len(FmRows))}
           : n \in 1..MaxRows}

\* fourier_motzkin_elimination up to its call of fm_elimination.
FmPreprocess ==
    /\ fm_pc = "preprocess"
    /\ constraints' = SplitEqualities(constraints)
    /\ fm_pc' = "eliminate"
    /\ UNCHANGED <<vars_to_eliminate, fm_input, fm_elim>>
    /\ UNCHANGED loop_vars
    /\ UNCHANGED fp_vars

\* One call of fm_elimination with variables left: pop one and recurse.
FmEliminate ==
    /\ fm_pc = "eliminate"
    /\ \E the_var \in vars_to_eliminate :
          /\ vars_to_eliminate' = vars_to_eliminate \ {the_var}
          /\ IF FmRaises(constraints, the_var)
             THEN /\ fm_pc' = "RuntimeError"
                  /\ UNCHANGED constraints
             ELSE /\ fm_pc' = "eliminate"
                  /\ constraints' = FmStep(constraints, the_var)
    /\ UNCHANGED <<fm_input, fm_elim>>
    /\ UNCHANGED loop_vars
    /\ UNCHANGED fp_vars

\* The call of fm_elimination with no variable left returns the list.
FmReturn ==
    /\ fm_pc = "eliminate"
    /\ vars_to_eliminate = {}
    /\ fm_pc' = "returned"
    /\ UNCHANGED <<constraints, vars_to_eliminate, fm_input, fm_elim>>
    /\ UNCHANGED loop_vars
    /\ UNCHANGED fp_vars

NextFM == FmPreprocess \/ FmEliminate \/ FmReturn

(***************************************************************************)
(* The models the loop works on.  The instance is the disjunction          *)
(* x in [0,1] or x in [2,3] with indicator y of the first disjunct:        *)
(* transBlock.all_vars = (x, y), the hull relaxation disaggregates x into  *)
(* d1 and d2.  The solver is external: what it returns is drawn from       *)
(* bounded sets.                                                           *)
(***************************************************************************)
all_vars == <<"x", "y">>
disaggregated_vars == {"d1", "d2"}
rCHull_vars == <<"x", "y", "d1", "d2">>

RangeOf(f) == {f[i] : i \in DOMAIN f}

var_map ==
    [v \in RangeOf(all_vars) |->
        IF v = "x" THEN [bigM |-> "x_bigM", rBigM |-> "x_rBigM"]
        ELSE [bigM |-> "y_bigM", rBigM |-> "y_rBigM"]]

Body4(cx, cy, c1, c2, k) ==
    LET c == <<cx, cy, c1, c2>>
    IN  [v \in {NoneKey} \cup {rCHull_vars[i] : i \in {j \in 1..4 : c[j] # 0}} |->
            IF v = NoneKey THEN Num(k)
            ELSE Num(c[CHOOSE i \in 1..4 : rCHull_vars[i] = v])]

\* The active constraints of instance_rCHull, in their deterministic order.
rCHull_constraints ==
    << Row(Body4(1, 0, -1, -1, 0), Num(0), Num(0)),   \* x = d1 + d2
       Row(Body4(0, -1, 1, 0, 0), None, Num(0)),      \* d1 <= 1*y
       Row(Body4(0, 0, 1, 0, 0), Num(0), None),       \* d1 >= 0*y
       Row(Body4(0, 3, 0, 1, 0), None, Num(3)),       \* d2 <= 3*(1 - y)
       Row(Body4(0, 2, 0, 1, 0), Num(2), None) >>     \* d2 >= 2*(1 - y)

Point2(x, y) == [v \in RangeOf(all_vars) |-> IF v = "x" THEN x ELSE y]
Point4(x, y, d1, d2) ==
    [v \in RangeOf(rCHull_vars) |->
        IF v = "x" THEN x ELSE IF v = "y" THEN y ELSE IF v = "d1" THEN d1 ELSE d2]

\* Solutions the solver may load into instance_rBigM and instance_rCHull.
\* The separation solve is not checked (line 311), so the point it leaves
\* need not be feasible: the last one violates x = d1 + d2.
rBigM_points == {Point2(Num(3), Num(0)), Point2(Num(2), <<1, 2>>)}
rCHull_points ==
    { Point4(Num(3), Num(0), Num(0), Num(3)),
      Point4(Num(0), Num(1), Num(0), Num(0)),
      Point4(Num(2), <<1, 2>>, <<1, 2>>, <<3, 2>>),
      Point4(<<3, 2>>, <<1, 2>>, <<1, 4>>, <<5, 4>>),
      Point4(Num(3), Num(0), Num(0), Num(2)) }
ObjVals == {Num(-2), Num(0), <<1, 2>>, Num(1), <<21, 20>>}
\* The default of EPS (line 80) and a larger setting.
DefaultEps == <<1, 20>>
EpsVals == {DefaultEps, Num(1)}
Statuses == {"NORMAL", "INFEASIBLE", "NONOPTIMAL"}

MaxIter == 2

NoValues(varseq) == [v \in RangeOf(varseq) |-> None]

(***************************************************************************)
(* The cut containers: Constraint(Any), a map from index to constraint.    *)
(***************************************************************************)
EmptyContainer == <<>>

ContainerLen(c) == Cardinality(DOMAIN c)

ContainerAdd(c, idx, cut) ==
    [i \in DOMAIN c \cup {idx} |-> IF i = idx THEN cut ELSE c[i]]

\* Mutant: every cut is stored under the first index.
CutIndex_first(c) == 0

\* The index a new cut is stored under (lines 340 and 347).
CutIndex(c) == ContainerLen(c)

RECURSIVE AddCuts(_, _)
AddCuts(c, cutseq) ==
    IF cutseq = <<>> THEN c
    ELSE AddCuts(ContainerAdd(c, CutIndex(c), Head(cutseq)), Tail(cutseq))

(***************************************************************************)
(* The improvement test (lines 305-308).  The division raises              *)
(* ZeroDivisionError when it is reached with prev_obj = 0.                 *)
(***************************************************************************)
obj_diff(prev, v) == FSub(prev, v)

RelativeBranch(prev, v) == ~IsInf(obj_diff(prev, v)) /\ ~FLess(FAbs(v), One)

ImprovingRaises(prev, v) == RelativeBranch(prev, v) /\ FIsZero(prev)

\* Mutant: the relative difference is taken to the current value.
Improving_relcur(prev, v, eps) ==
    \/ IsInf(obj_diff(prev, v))
    \/ IF FLess(FAbs(v), One)
       THEN FLess(eps, FAbs(obj_diff(prev, v)))
       ELSE FLess(eps, FAbs(FDiv(obj_diff(prev, v), v)))

Improving(prev, v, eps) ==
    \/ IsInf(obj_diff(prev, v))
    \/ IF FLess(FAbs(v), One)
       THEN FLess(eps, FAbs(obj_diff(prev, v)))
       ELSE FLess(eps, FAbs(FDiv(obj_diff(prev, v), prev)))

\* Mutant: the status of the solve is not looked at.
SolveIsNormal_any(status) == TRUE

\* verify_successful_solve(results) is NORMAL (line 283).
SolveIsNormal(status) == status = "NORMAL"

\* Mutant: the missing objective is not detected.
ObjectiveMissing_never == FALSE

\* rBigM_obj is None (line 269).
ObjectiveMissing == ~has_objective

\* value(transBlock_rCHull.separation_objective): the objective built by
\* _add_separation_objective, sum of (x_chull - x_star)**2 over var_info.
RECURSIVE SquaredDistance(_, _, _)
SquaredDistance(i, xc, xs) ==
    IF i = 0 THEN Zero
    ELSE LET d == FSub(xc[all_vars[i]], xs[all_vars[i]])
         IN  FAdd(FMul(d, d), SquaredDistance(i - 1, xc, xs))

separation_objective(xc, xs) == SquaredDistance(Len(all_vars), xc, xs)

\* Mutant: the comparison is the other way round.
SeparationTooSmall_flipped(sep, eps) == FLess(eps, FAbs(sep))

\* The test of line 325.
SeparationTooSmall(sep, eps) == FLess(FAbs(sep), eps)

(***************************************************************************)
(* _create_cuts up to its call of fourier_motzkin_elimination.             *)
(***************************************************************************)
\* Mutant: a bound that is attained does not count, only one that is
\* violated.
constraint_tight_strict(constraint, p) ==
    LET val == RatOf(RowValue(constraint, p))
    IN  (IF constraint.lower # None /\ FLess(val, constraint.lower) THEN -1 ELSE 0)
        + (IF constraint.upper # None /\ FLess(constraint.upper, val) THEN 1 ELSE 0)

\* constraint_tight at the point p.
constraint_tight(constraint, p) ==
    LET val == RatOf(RowValue(constraint, p))
    IN  (IF constraint.lower # None /\ FLeq(val, constraint.lower) THEN -1 ELSE 0)
        + (IF constraint.upper # None /\ FLeq(constraint.upper, val) THEN 1 ELSE 0)

\* The constraints with a nonzero multiplier, in the order of the loop.
TightConstraints(p) ==
    LET Test(c) == constraint_tight(c, p) # 0
    IN  SelectSeq(rCHull_constraints, Test)

\* get_linear_constraint_repn of each of them.
tight_constraints(p) == TightConstraints(p)

\* multiplier * derivative of the body with respect to v, summed over the
\* tight constraints i..1 (a linear body: the derivative is the coefficient).
RECURSIVE NormalSum(_, _, _)
NormalSum(i, v, p) ==
    IF i = 0 THEN Zero
    ELSE LET c == TightConstraints(p)[i]
         IN  FAdd(FMul(Num(constraint_tight(c, p)), CoefOrZero(c, v)),
                  NormalSum(i - 1, v, p))

composite_normal(v, p) == NormalSum(Len(TightConstraints(p)), v, p)

RECURSIVE CutConstant(_, _)
\* The constant of sum of normal[v] * (v - v.value) over rCHull_vars[1..i].
CutConstant(i, p) ==
    IF i = 0 THEN Zero
    ELSE FAdd(FNeg(FMul(composite_normal(rCHull_vars[i], p), p[rCHull_vars[i]])),
              CutConstant(i - 1, p))

\* cut_cons: the standard representation of composite_cutexpr_CHull (the
\* variables with a nonzero coefficient, the constant under None), <= 0.
cut_cons(p) ==
    Row([v \in {NoneKey} \cup
               {w \in RangeOf(rCHull_vars) : ~FIsZero(composite_normal(w, p))} |->
            IF v = NoneKey THEN CutConstant(Len(rCHull_vars), p)
            ELSE composite_normal(v, p)],
        None, Zero)

(***************************************************************************)
(* get_constraint_exprs: the projected rows over the variables of one      *)
(* model ("bigM" or "rBigM"); rows without a variable are dropped.         *)
(***************************************************************************)
NonzeroVars(cons) ==
    {v \in DOMAIN cons.body \ {NoneKey} : ~FIsZero(cons.body[v])}

trivial_constraint(cons) == NonzeroVars(cons) = {}

\* var_map[var] raises KeyError for a variable that is not in all_vars.
MapRaises(rows) ==
    \E i \in 1..Len(rows) : ~(NonzeroVars(rows[i]) \subseteq DOMAIN var_map)

MappedCut(cons, model) ==
    LET keys == {NoneKey} \cup {var_map[v][model] : v \in NonzeroVars(cons)}
        body == [k \in keys |->
                    IF k = NoneKey THEN CoefOrZero(cons, NoneKey)
                    ELSE cons.body[CHOOSE v \in NonzeroVars(cons) : var_map[v][model] = k]]
    IN  IF cons.lower # None THEN Row(body, cons.lower, None)
        ELSE Row(body, None, cons.upper)

get_constraint_exprs(rows) ==
    LET Kept(c) == ~trivial_constraint(c) /\ (c.lower # None \/ c.upper # None)
        kept == SelectSeq(rows, Kept)
    IN  [rBigM |-> [i \in 1..Len(kept) |-> MappedCut(kept[i], "rBigM")],
         bigM |-> [i \in 1..Len(kept) |-> MappedCut(kept[i], "bigM")]]

(***************************************************************************)
(* _generate_cuttingplanes.                                                *)
(***************************************************************************)
\* The ways the loop ends without an exception: the return of line 287,
\* the break of line 328, the break of line 336, the loop test of line 280.
Outcomes == {"Failed", "ConvergedInterior", "ConvergedNoCut", "Stalled"}

\* The value _generate_cuttingplanes returns for each: line 287 is a bare
\* return, and after the loop the function ends without a return statement.
\* _apply_to (lines 114-116) drops it and returns nothing itself.
ReturnValue(how) == None

\* return_value while the function has not returned.
NotReturned == <<"pending">>

\* The function ends the way `how`.
Leave(how) == outcome' = how /\ return_value' = ReturnValue(how)

\* The exit an action takes when it sets pc to "returned".
LeaveIfReturned(how) ==
    IF pc' = "returned" THEN Leave(how) ELSE UNCHANGED <<outcome, return_value>>

FpIdle ==
    /\ fp_pc = "idle"
    /\ fp_rows = <<>>
    /\ fp_scaled = <<>>
    /\ fp_sum = <<>>

FmIdle ==
    /\ fm_pc = "idle"
    /\ constraints = <<>>
    /\ vars_to_eliminate = {}
    /\ fm_input = <<>>
    /\ fm_elim = {}

Init ==
    /\ pc = "check_objective"
    /\ has_objective \in BOOLEAN
    /\ results = "none"
    /\ epsilon \in EpsVals
    /\ improving = TRUE
    /\ prev_obj = Inf
    /\ rBigM_objVal = None
    /\ cuts = None
    /\ x_rbigm = NoValues(all_vars)
    /\ x_star = NoValues(all_vars)
    /\ x_chull = NoValues(rCHull_vars)
    /\ bigM_cuts = EmptyContainer
    /\ rBigM_cuts = EmptyContainer
    /\ rBigM_solves = 0
    /\ separation_solves = 0
    /\ outcome = "running"
    /\ return_value = NotReturned
    /\ FmIdle
    /\ FpIdle

\* Lines 251-278: the objective is looked up before the loop.
CheckObjective ==
    /\ pc = "check_objective"
    /\ pc' = IF ObjectiveMissing THEN "GDP_Error" ELSE "solve_rBigM"
    /\ UNCHANGED <<outcome, return_value>>
    /\ UNCHANGED <<has_objective, results, epsilon, improving, prev_obj, rBigM_objVal,
                   cuts, x_rbigm, x_star, x_chull, bigM_cuts, rBigM_cuts,
                   rBigM_solves, separation_solves>>
    /\ UNCHANGED fm_vars
    /\ UNCHANGED fp_vars

\* Lines 280-308: the loop test, the relaxed-BigM solve, the copy of the
\* solution into xstar and the hull variables, the improvement test.
\* One pass of lines 280-308 when the solver ends with `status`, loads the
\* point `sol` and the objective takes the value v.
RelaxedSolve(status, sol, v) ==
    /\ pc = "solve_rBigM"
    /\ rBigM_solves' = rBigM_solves + 1
    /\ x_rbigm' = sol
    /\ results' = status
    /\ IF ~SolveIsNormal(status)
       THEN /\ pc' = "returned"
            /\ UNCHANGED <<rBigM_objVal, x_star, x_chull, improving>>
       ELSE /\ rBigM_objVal' = v
            /\ x_star' = sol
            /\ x_chull' = [w \in DOMAIN x_chull |->
                              IF w \in DOMAIN sol THEN sol[w] ELSE x_chull[w]]
            /\ IF ImprovingRaises(prev_obj, v)
               THEN /\ pc' = "ZeroDivisionError"
                    /\ UNCHANGED improving
               ELSE /\ pc' = "solve_separation"
                    /\ improving' = Improving(prev_obj, v, epsilon)
    /\ LeaveIfReturned("Failed")
    /\ UNCHANGED <<has_objective, epsilon, prev_obj, cuts, bigM_cuts, rBigM_cuts,
                   separation_solves>>
    /\ UNCHANGED fm_vars
    /\ UNCHANGED fp_vars

SolveRelaxation ==
    /\ rBigM_solves < MaxIter
    /\ \E status \in Statuses, sol \in rBigM_points, v \in ObjVals :
          RelaxedSolve(status, sol, v)

\* Lines 310-328: the separation solve and the test of its objective.
SolveSeparation ==
    /\ pc = "solve_separation"
    /\ \E sol \in rCHull_points :
          /\ x_chull' = sol
          /\ separation_solves' = separation_solves + 1
          /\ pc' = IF SeparationTooSmall(separation_objective(sol, x_star), epsilon)
                   THEN "returned" ELSE "create_cuts"
          /\ LeaveIfReturned("ConvergedInterior")
    /\ UNCHANGED <<has_objective, results, epsilon, improving, prev_obj, rBigM_objVal,
                   cuts, x_rbigm, x_star, bigM_cuts, rBigM_cuts, rBigM_solves>>
    /\ UNCHANGED fm_vars
    /\ UNCHANGED fp_vars

\* Mutant: the value _create_cuts returned is not tested.
NotCuts_never(c) == FALSE

\* `not cuts` of line 335: true of None and of a dictionary without keys
\* (None is the empty tuple here, and has no keys either).
NotCuts(c) == DOMAIN c = {}

\* Lines 330-336 and 378-493: _create_cuts returns None without a normal
\* vector (and the loop breaks), else hands the tight rows and the cut in
\* the extended space to fourier_motzkin_elimination.
CreateCuts ==
    /\ pc = "create_cuts"
    /\ IF Len(TightConstraints(x_chull)) = 0
       THEN /\ cuts' = None
            /\ pc' = IF NotCuts(cuts') THEN "returned" ELSE "TypeError"
            /\ UNCHANGED fm_vars
       ELSE /\ pc' = "project"
            /\ fm_pc' = "preprocess"
            /\ constraints' = Append(tight_constraints(x_chull), cut_cons(x_chull))
            /\ vars_to_eliminate' = disaggregated_vars
            /\ fm_input' = constraints'
            /\ fm_elim' = vars_to_eliminate'
            /\ UNCHANGED cuts
    /\ LeaveIfReturned("ConvergedNoCut")
    /\ UNCHANGED <<has_objective, results, epsilon, improving, prev_obj, rBigM_objVal,
                   x_rbigm, x_star, x_chull, bigM_cuts, rBigM_cuts,
                   rBigM_solves, separation_solves>>
    /\ UNCHANGED fp_vars

\* Lines 505 and 528, 335-336: the projected rows become the cuts of the
\* two models; the dictionary returned is never empty, so the loop goes on.
MapCuts ==
    /\ pc = "project"
    /\ fm_pc = "returned"
    /\ IF MapRaises(constraints)
       THEN /\ pc' = "KeyError"
            /\ UNCHANGED cuts
       ELSE /\ cuts' = get_constraint_exprs(constraints)
            /\ pc' = IF NotCuts(cuts') THEN "returned" ELSE "inject"
    /\ fm_pc' = "idle"
    /\ LeaveIfReturned("ConvergedNoCut")
    /\ UNCHANGED <<constraints, vars_to_eliminate, fm_input, fm_elim>>
    /\ UNCHANGED <<has_objective, results, epsilon, improving, prev_obj, rBigM_objVal,
                   x_rbigm, x_star, x_chull, bigM_cuts, rBigM_cuts,
                   rBigM_solves, separation_solves>>
    /\ UNCHANGED fp_vars

\* Mutant: the BigM model takes no cut.
AddToBigM_never == FALSE

\* Mutant: the BigM model takes the cut of every iteration.
AddToBigM_always == TRUE

\* The condition of line 345.
AddToBigM == improving

\* Mutant: prev_obj is not updated.
NextPrevObj_stale == prev_obj

\* The value prev_obj takes at line 352.
NextPrevObj == rBigM_objVal

\* Mutant: the loop test never fails.
LoopAgain_always == TRUE

\* The loop test of line 280 after an iteration.
LoopAgain == improving

\* Lines 338-352 and the loop test: the cuts are added, prev_obj is set.
InjectCuts ==
    /\ pc = "inject"
    /\ rBigM_cuts' = AddCuts(rBigM_cuts, cuts.rBigM)
    /\ bigM_cuts' = IF AddToBigM THEN AddCuts(bigM_cuts, cuts.bigM) ELSE bigM_cuts
    /\ prev_obj' = NextPrevObj
    /\ pc' = IF LoopAgain THEN "solve_rBigM" ELSE "returned"
    /\ LeaveIfReturned("Stalled")
    /\ UNCHANGED <<has_objective, results, epsilon, improving, rBigM_objVal, cuts,
                   x_rbigm, x_star, x_chull, rBigM_solves, separation_solves>>
    /\ UNCHANGED fm_vars
    /\ UNCHANGED fp_vars

Next ==
    \/ CheckObjective
    \/ SolveRelaxation
    \/ SolveSeparation
    \/ CreateCuts
    \/ FmPreprocess
    \/ FmEliminate
    \/ FmReturn
    \/ MapCuts
    \/ InjectCuts

Spec == Init /\ [][Next]_vars

(***************************************************************************)
(* The loop with a solver whose objective values never decrease from one   *)
(* relaxed solve to the next (the relaxation is minimised and only gets    *)
(* cuts), drawn from the finite set ObjVals.  The solves are counted up to *)
(* TermCap, which is above the number of solves such a run can make.       *)
(***************************************************************************)
Monotone(prev, v) == IsInf(prev) \/ FLeq(prev, v)

TermCap == Cardinality(ObjVals) + 2

SolveRelaxationMonotone ==
    /\ rBigM_solves < TermCap
    /\ \E status \in Statuses, sol \in rBigM_points, v \in ObjVals :
          /\ Monotone(prev_obj, v)
          /\ RelaxedSolve(status, sol, v)

NextTerm ==
    \/ CheckObjective
    \/ SolveRelaxationMonotone
    \/ SolveSeparation
    \/ CreateCuts
    \/ FmPreprocess
    \/ FmEliminate
    \/ FmReturn
    \/ MapCuts
    \/ InjectCuts

SpecTerm == Init /\ [][NextTerm]_vars

(***************************************************************************)
(* The projector on its own, on the bounded inputs above.                  *)
(***************************************************************************)
InitFM ==
    /\ fm_pc = "preprocess"
    /\ constraints \in FmSystems
    /\ vars_to_eliminate \in SUBSET FmAux
    /\ fm_input = constraints
    /\ fm_elim = vars_to_eliminate
    /\ pc = "projector"
    /\ has_objective = TRUE
    /\ results = "none"
    /\ epsilon = DefaultEps
    /\ improving = TRUE
    /\ prev_obj = Inf
    /\ rBigM_objVal = None
    /\ cuts = None
    /\ x_rbigm = NoValues(all_vars)
    /\ x_star = NoValues(all_vars)
    /\ x_chull = NoValues(rCHull_vars)
    /\ bigM_cuts = EmptyContainer
    /\ rBigM_cuts = EmptyContainer
    /\ rBigM_solves = 0
    /\ separation_solves = 0
    /\ outcome = "running"
    /\ return_value = NotReturned
    /\ FpIdle

SpecFM == InitFM /\ [][NextFM]_vars

(***************************************************************************)
(* The scaling of the eliminated variable's coefficient as the build       *)
(* computes it.  Python floats are IEEE binary64, rounded to nearest, ties *)
(* to even.  For an integer coefficient of magnitude c, with               *)
(* 2^(e-1) < c <= 2^e, the scalar 1.0/c is m * 2^-(52+e) for the integer m *)
(* nearest to 2^(52+e)/c, and the product c * scalar is c * m * 2^-(52+e)  *)
(* rounded again.  Let R = 2^(52+e) mod c.  When 2R > c, m was rounded up, *)
(* the product exceeds 1 by less than half the spacing of the floats above *)
(* 1 and rounds to 1.  When 2R <= c, m was rounded down, the product is    *)
(* 1 - R * 2^-(52+e), above 1 - 2^-53, and it rounds to 1 when 4R <= 2^e   *)
(* and to 1 - 2^-53, the float next below 1, otherwise.  Signs do not      *)
(* change the rounding.  A float of this kind is <<s, k>>, the number      *)
(* s * (1 - k * 2^-53) with s = 1 or -1.                                   *)
(***************************************************************************)
PivotMax == 50

RECURSIVE Pow2Mod(_, _)
\* 2^n mod c
Pow2Mod(n, c) == IF n = 0 THEN 1 % c ELSE (2 * Pow2Mod(n - 1, c)) % c

RECURSIVE Exponent(_, _, _)
\* The least e at or above `e` with 2^e >= c, where pow = 2^e.
Exponent(c, e, pow) == IF pow >= c THEN e ELSE Exponent(c, e + 1, 2 * pow)

\* k such that the float c * (1.0/c) is 1 - k * 2^-53.
UlpsBelowOne(c) ==
    LET e == Exponent(c, 0, 1)
        R == Pow2Mod(52 + e, c)
    IN  IF 2 * R <= c /\ 4 * R > 2 ^ e THEN 1 ELSE 0

\* The rows whose coefficient of the_var is scaled: nonzero integer
\* coefficients, one bound each.
PivotRows ==
    {[coef |-> c, side |-> sd] :
        c \in ((-PivotMax)..PivotMax) \ {0}, sd \in {"lower", "upper"}}

\* The row goes to leq_list (lines 633-637, 647-651), else to geq_list.
PivotIsLeq(row) ==
    \/ row.side = "lower" /\ row.coef < 0
    \/ row.side = "upper" /\ row.coef > 0

\* coef * scalar of line 802 for the_var, the scalar being
\* -1.0/leaving_var_coef for leq_list and 1.0/leaving_var_coef for
\* geq_list.
ScaledPivot(row) ==
    <<IF PivotIsLeq(row) THEN -1 ELSE 1, UlpsBelowOne(Abs(row.coef))>>

\* cons1_coef + cons2_coef of line 771 for two floats of this kind, in
\* units of 2^-53 (the difference of two floats this close is exact).
\* Rows of the same list are not added: no sum.
PivotSum(a, b) ==
    IF a[1] = b[1] THEN <<>>
    ELSE <<a[1] * (0 - a[2]) + b[1] * (0 - b[2])>>

InitPivot ==
    /\ fp_pc = "scale"
    /\ fp_rows \in PivotRows \X PivotRows
    /\ fp_scaled = <<>>
    /\ fp_sum = <<>>
    /\ FmIdle
    /\ pc = "pivot"
    /\ has_objective = TRUE
    /\ results = "none"
    /\ epsilon = DefaultEps
    /\ improving = TRUE
    /\ prev_obj = Inf
    /\ rBigM_objVal = None
    /\ cuts = None
    /\ x_rbigm = NoValues(all_vars)
    /\ x_star = NoValues(all_vars)
    /\ x_chull = NoValues(rCHull_vars)
    /\ bigM_cuts = EmptyContainer
    /\ rBigM_cuts = EmptyContainer
    /\ rBigM_solves = 0
    /\ separation_solves = 0
    /\ outcome = "running"
    /\ return_value = NotReturned

\* Lines 618-656: both rows are scaled.
PivotScale ==
    /\ fp_pc = "scale"
    /\ fp_scaled' = <<ScaledPivot(fp_rows[1]), ScaledPivot(fp_rows[2])>>
    /\ fp_pc' = "add"
    /\ UNCHANGED <<fp_rows, fp_sum>>
    /\ UNCHANGED <<loop_vars, fm_vars>>

\* Lines 674-676: a row of leq_list and a row of geq_list are added.
PivotAdd ==
    /\ fp_pc = "add"
    /\ fp_sum' = PivotSum(fp_scaled[1], fp_scaled[2])
    /\ fp_pc' = "added"
    /\ UNCHANGED <<fp_rows, fp_scaled>>
    /\ UNCHANGED <<loop_vars, fm_vars>>

NextPivot == PivotScale \/ PivotAdd

SpecPivot == InitPivot /\ [][NextPivot]_vars

(***************************************************************************)
(* Statements about the loop.                                              *)
(***************************************************************************)
\* The container `after` holds `before` and then the cuts of `added`, each
\* under the next free index.
Appended(before, added, after) ==
    /\ DOMAIN after = 0..(ContainerLen(before) + Len(added) - 1)
    /\ \A i \in DOMAIN before : after[i] = before[i]
    /\ \A k \in 1..Len(added) : after[ContainerLen(before) + k - 1] = added[k]

\* C1: the step that injects the cuts of an iteration always appends the
\* relaxed-BigM rows to the relaxed-BigM cut set; it appends the BigM rows
\* to the BigM cut set when improving is true, and otherwise leaves the
\* BigM cut set as it is and ends the loop.
C1_InjectionPolicy ==
    [][pc = "inject" /\ pc' # "inject" =>
          /\ Appended(rBigM_cuts, cuts.rBigM, rBigM_cuts')
          /\ IF improving
             THEN Appended(bigM_cuts, cuts.bigM, bigM_cuts')
             ELSE bigM_cuts' = bigM_cuts /\ pc' = "returned"]_vars

\* A non-improving iteration has injected cuts into the relaxed-BigM set
\* that the BigM set did not get.
C1_Witness ==
    /\ pc = "returned"
    /\ ~improving
    /\ ContainerLen(bigM_cuts) > 0
    /\ ContainerLen(rBigM_cuts) > ContainerLen(bigM_cuts)

\* C2: a relaxed-BigM solve that ends with a non-normal status ends the
\* loop in the same step, with no separation solve, the anchors and both
\* cut sets unchanged; nothing changes after the loop has ended.
C2_FailedSolveStops ==
    [][/\ (pc = "solve_rBigM" /\ pc' # pc /\ results' # "NORMAL") =>
             /\ pc' = "returned"
             /\ separation_solves' = separation_solves
             /\ x_star' = x_star
             /\ bigM_cuts' = bigM_cuts
             /\ rBigM_cuts' = rBigM_cuts
       /\ (pc = "returned" /\ results # "NORMAL") =>
             /\ pc' = "returned"
             /\ separation_solves' = separation_solves
             /\ bigM_cuts' = bigM_cuts
             /\ rBigM_cuts' = rBigM_cuts]_vars

\* The second relaxed solve failed after the first iteration injected cuts.
C2_Witness ==
    /\ pc = "returned"
    /\ results # "NORMAL"
    /\ rBigM_solves = 2
    /\ ContainerLen(bigM_cuts) > 0

\* C3: without an active objective the run never gets past the check: no
\* solver call is made and both cut sets stay empty.
C3_NoObjectiveIsFatal ==
    ~has_objective =>
        /\ pc \in {"check_objective", "GDP_Error"}
        /\ rBigM_solves = 0
        /\ separation_solves = 0
        /\ ContainerLen(bigM_cuts) = 0
        /\ ContainerLen(rBigM_cuts) = 0

C3_Witness == pc = "GDP_Error" /\ ~has_objective

\* C4: a separation solve that leaves the squared distance below epsilon
\* ends the loop in the same step; no cut is built and both cut sets stay
\* as they were, empty when this is the first iteration.
C4_InteriorStops ==
    [][(/\ pc = "solve_separation"
        /\ pc' # pc
        /\ FLess(separation_objective(x_chull', x_star'), epsilon)) =>
          /\ pc' = "returned"
          /\ cuts' = cuts
          /\ fm_pc' = "idle"
          /\ bigM_cuts' = bigM_cuts
          /\ rBigM_cuts' = rBigM_cuts
          /\ rBigM_solves = 1 =>
                ContainerLen(bigM_cuts') = 0 /\ ContainerLen(rBigM_cuts') = 0]_vars

\* The first iteration ended on the distance test with a nonzero distance.
C4_Witness ==
    /\ pc = "returned"
    /\ results = "NORMAL"
    /\ rBigM_solves = 1
    /\ separation_solves = 1
    /\ FLess(separation_objective(x_chull, x_star), epsilon)
    /\ FLess(Zero, separation_objective(x_chull, x_star))
    /\ ContainerLen(bigM_cuts) = 0
    /\ ContainerLen(rBigM_cuts) = 0

\* C5: in every step each cut set keeps its cuts under their indices, and
\* the indices of a cut set of N cuts are 0..N-1.
C5_AppendOnly ==
    [][/\ \A i \in DOMAIN bigM_cuts :
             i \in DOMAIN bigM_cuts' /\ bigM_cuts'[i] = bigM_cuts[i]
       /\ \A i \in DOMAIN rBigM_cuts :
             i \in DOMAIN rBigM_cuts' /\ rBigM_cuts'[i] = rBigM_cuts[i]
       /\ DOMAIN bigM_cuts' = 0..(ContainerLen(bigM_cuts') - 1)
       /\ DOMAIN rBigM_cuts' = 0..(ContainerLen(rBigM_cuts') - 1)]_vars

\* Two iterations have added cuts to both sets.
C5_Witness ==
    /\ rBigM_solves = 2
    /\ pc = "returned"
    /\ ContainerLen(bigM_cuts) >= 2
    /\ ContainerLen(rBigM_cuts) > ContainerLen(bigM_cuts)

\* The improving flag as the specification words it, with the relative
\* difference cleared of its division.
StatedImproving(prev, v, eps) ==
    \/ IsInf(FSub(prev, v))
    \/ FLess(FAbs(v), One) /\ FLess(eps, FAbs(FSub(prev, v)))
    \/ ~FLess(FAbs(v), One) /\ FLess(FMul(eps, FAbs(prev)), FAbs(FSub(prev, v)))

\* C9: from the improvement test to the end of the iteration, improving is
\* the stated function of prev_obj, the objective value and epsilon, and it
\* is true in the first iteration.
C9_ImprovingFlag ==
    pc \in {"solve_separation", "create_cuts", "project", "inject"} =>
        /\ improving <=> StatedImproving(prev_obj, rBigM_objVal, epsilon)
        /\ rBigM_solves = 1 => improving

\* A second iteration whose relative difference is not above epsilon.
C9_Witness ==
    /\ pc = "solve_separation"
    /\ rBigM_solves = 2
    /\ ~improving
    /\ ~FLess(FAbs(rBigM_objVal), One)
    /\ prev_obj # rBigM_objVal

\* C10: the step that ends an iteration sets prev_obj to the objective
\* value of the iteration and goes back to the relaxed solve when improving
\* is true, else ends the loop; after the loop has ended no solve is made.
C10_PrevAndStall ==
    [][/\ (pc = "inject" /\ pc' # "inject") =>
             /\ prev_obj' = rBigM_objVal
             /\ pc' = IF improving THEN "solve_rBigM" ELSE "returned"
       /\ pc = "returned" =>
             /\ pc' = "returned"
             /\ rBigM_solves' = rBigM_solves
             /\ separation_solves' = separation_solves]_vars

\* The loop has ended on a non-improving second iteration.
C10_Witness ==
    /\ pc = "returned"
    /\ ~improving
    /\ rBigM_solves = 2
    /\ prev_obj = rBigM_objVal

\* C11: when the loop has ended, the value handed to the caller differs
\* from the value every other way of ending would hand it, so the caller
\* can tell the three convergence outcomes and the failed outcome apart.
C11_OutcomesDistinct ==
    pc = "returned" =>
        \A other \in Outcomes \ {outcome} : return_value # ReturnValue(other)

\* The steps an iteration has left to take, from the position in it.
MaxRank == Cardinality(disaggregated_vars) + 6

Rank ==
    CASE pc = "check_objective" -> 1
      [] pc = "solve_separation" -> MaxRank
      [] pc = "create_cuts" -> MaxRank - 1
      [] pc = "project" /\ fm_pc = "preprocess" -> MaxRank - 2
      [] pc = "project" /\ fm_pc = "eliminate" -> 3 + Cardinality(vars_to_eliminate)
      [] pc = "project" /\ fm_pc = "returned" -> 2
      [] pc = "inject" -> 1
      [] OTHER -> 0

\* The objective values a later improving iteration can still take.
Above(prev) == IF IsInf(prev) THEN ObjVals ELSE {u \in ObjVals : FLess(prev, u)}

\* The relaxed solves a run may still make (one for each value still
\* above prev_obj, and the one that is due at the top of the loop), and
\* the steps left in the current iteration.
Measure ==
    (Cardinality(Above(prev_obj))
        + (IF pc \in {"check_objective", "solve_rBigM"} THEN 1 ELSE 0)) * (MaxRank + 1)
    + Rank

\* C12: with objective values that never decrease and come from a finite
\* set, the loop stops after a bounded number of iterations: every step
\* of a run lowers a measure that is a natural number, so no run goes on
\* forever, and the relaxed solves made and the values still above
\* prev_obj never add up to more than the number of values plus one.
C12_LoopTerminates ==
    /\ [][Measure' < Measure]_vars
    /\ [](rBigM_solves + Cardinality(Above(prev_obj)) <= Cardinality(ObjVals) + 1)

\* A run that went through three improving iterations and then stalled.
C12_Witness ==
    /\ pc = "returned"
    /\ outcome = "Stalled"
    /\ rBigM_solves >= 4

\* The multiplier as the specification words it.
StatedMultiplier(c, p) ==
    LET val == RatOf(RowValue(c, p))
        low == IF c.lower # None /\ ~FLess(c.lower, val) THEN -1 ELSE 0
        up == IF c.upper # None /\ ~FLess(val, c.upper) THEN 1 ELSE 0
    IN  low + up

RECURSIVE StatedNormal(_, _, _)
\* The sum over the first i hull constraints of multiplier * coefficient of v.
StatedNormal(i, v, p) ==
    IF i = 0 THEN Zero
    ELSE FAdd(FMul(Num(StatedMultiplier(rCHull_constraints[i], p)),
                   CoefOrZero(rCHull_constraints[i], v)),
              StatedNormal(i - 1, v, p))

\* C13: at the point the separation solve left, constraint_tight of every
\* hull constraint is the stated sum, a value in {-1, 0, 1} that is 0 for
\* an equality that holds exactly; and the rows handed to the projector
\* are the constraints with a nonzero value, in order, followed by the cut
\* whose normal is the sum of value * coefficient over those constraints.
C13_TightMultiplier ==
    /\ pc \in {"create_cuts", "project"} =>
          \A i \in 1..Len(rCHull_constraints) :
              LET c == rCHull_constraints[i]
                  t == constraint_tight(c, x_chull)
              IN  /\ t = StatedMultiplier(c, x_chull)
                  /\ t \in {-1, 0, 1}
                  /\ (/\ c.lower # None
                      /\ c.lower = c.upper
                      /\ RatOf(RowValue(c, x_chull)) = c.lower) => t = 0
    /\ pc = "project" =>
          LET Contributes(c) == StatedMultiplier(c, x_chull) # 0
              rows == SelectSeq(rCHull_constraints, Contributes)
          IN  /\ Len(fm_input) = Len(rows) + 1
              /\ Len(rows) > 0
              /\ \A k \in 1..Len(rows) : fm_input[k] = rows[k]
              /\ \A v \in RangeOf(rCHull_vars) :
                    CoefOrZero(fm_input[Len(fm_input)], v)
                        = StatedNormal(Len(rCHull_constraints), v, x_chull)

\* Rows were handed to the projector at a point where a lower bound is
\* attained, an upper bound is attained, a bound is violated and the
\* equality holds exactly.
C13_Witness ==
    /\ pc = "project"
    /\ \E i \in 1..Len(rCHull_constraints) :
          LET c == rCHull_constraints[i]
          IN  c.lower # None /\ c.lower = c.upper
                /\ RatOf(RowValue(c, x_chull)) = c.lower
    /\ \E i \in 1..Len(rCHull_constraints) :
          StatedMultiplier(rCHull_constraints[i], x_chull) = -1
    /\ \E i \in 1..Len(rCHull_constraints) :
          StatedMultiplier(rCHull_constraints[i], x_chull) = 1
    /\ \E i \in 1..Len(rCHull_constraints) :
          StatedMultiplier(rCHull_constraints[i], x_chull) = 0

\* C17: the improvement test never raises: after a normal relaxed solve
\* the loop is never left by the division of the test.
C17_ImprovingTotal == pc # "ZeroDivisionError"

\* The cut b of the BigM model and the cut r of the relaxed-BigM model
\* are the same row under the correspondence of the variables.
Corresponds(b, r) ==
    /\ b.lower = r.lower
    /\ b.upper = r.upper
    /\ CoefOrZero(b, NoneKey) = CoefOrZero(r, NoneKey)
    /\ DOMAIN b.body \ {NoneKey} = {var_map[v].bigM : v \in RangeOf(all_vars)} \cap DOMAIN b.body
    /\ DOMAIN r.body \ {NoneKey} = {var_map[v].rBigM : v \in RangeOf(all_vars)} \cap DOMAIN r.body
    /\ \A v \in RangeOf(all_vars) :
          Coef(b, var_map[v].bigM) = Coef(r, var_map[v].rBigM)

\* C18: the i-th cut of the BigM model is always the i-th cut of the
\* relaxed-BigM model; the two sets have the same size whenever a relaxed
\* solve is due, and the relaxed-BigM set is larger only when the loop has
\* ended on a non-improving iteration.
C18_CutSetsCorrespond ==
    /\ \A i \in DOMAIN bigM_cuts :
          i \in DOMAIN rBigM_cuts /\ Corresponds(bigM_cuts[i], rBigM_cuts[i])
    /\ ContainerLen(bigM_cuts) <= ContainerLen(rBigM_cuts)
    /\ pc = "solve_rBigM" => ContainerLen(bigM_cuts) = ContainerLen(rBigM_cuts)
    /\ ContainerLen(bigM_cuts) < ContainerLen(rBigM_cuts) =>
          pc = "returned" /\ outcome = "Stalled" /\ ~improving

\* A second relaxed solve is due and both sets hold the cuts of the first
\* iteration, more than one.
C18_Witness ==
    /\ pc = "solve_rBigM"
    /\ rBigM_solves = 1
    /\ ContainerLen(bigM_cuts) >= 2
    /\ ContainerLen(rBigM_cuts) = ContainerLen(bigM_cuts)

\* C19: an iteration that is followed by another relaxed solve has added
\* at least one cut to the relaxed-BigM cut set.
C19_LoopMakesProgress ==
    [][(pc = "inject" /\ pc' = "solve_rBigM") =>
          ContainerLen(rBigM_cuts') > ContainerLen(rBigM_cuts)]_vars

\* No hull constraint contributes at the point p: each is slack, or an
\* equality that holds exactly.
NoneContributes(p) ==
    \A i \in 1..Len(rCHull_constraints) :
        StatedMultiplier(rCHull_constraints[i], p) = 0

\* C14: when no constraint is tight or violated at the point the separation
\* solve left, so that there is no cut candidate, the step that builds the
\* cut ends the loop as ConvergedNoCut with both cut sets unchanged, and
\* after that no solve is made and no cut is added.
C14_NoCutStops ==
    [][/\ (pc = "create_cuts" /\ NoneContributes(x_chull) /\ pc' # pc) =>
             /\ pc' = "returned"
             /\ outcome' = "ConvergedNoCut"
             /\ bigM_cuts' = bigM_cuts
             /\ rBigM_cuts' = rBigM_cuts
             /\ rBigM_solves' = rBigM_solves
             /\ separation_solves' = separation_solves
       /\ (pc = "returned" /\ outcome = "ConvergedNoCut") =>
             /\ pc' = "returned"
             /\ bigM_cuts' = bigM_cuts
             /\ rBigM_cuts' = rBigM_cuts
             /\ rBigM_solves' = rBigM_solves
             /\ separation_solves' = separation_solves]_vars

\* The second iteration found no contributing constraint; the cut of the
\* first iteration is still in both sets.
C14_Witness ==
    /\ pc = "returned"
    /\ outcome = "ConvergedNoCut"
    /\ NoneContributes(x_chull)
    /\ rBigM_solves = 2
    /\ ContainerLen(bigM_cuts) > 0

(***************************************************************************)
(* Statements about the projector.                                         *)
(***************************************************************************)
\* fm_elimination as the recursion it is, for a given order of the pops.
RECURSIVE fm_elimination(_, _)
fm_elimination(cons, order) ==
    IF order = <<>> THEN cons
    ELSE fm_elimination(FmStep(cons, Head(order)), Tail(order))

(***************************************************************************)
(* Points and satisfaction, for the statements about feasible regions.     *)
(* A point maps variables to numbers.                                      *)
(***************************************************************************)
GridMax == 2

GridVals == {Num(k) : k \in (-GridMax)..GridMax}

Satisfies(cons, p) ==
    /\ cons.lower = None \/ FLeq(cons.lower, RowValue(cons, p))
    /\ cons.upper = None \/ FLeq(RowValue(cons, p), cons.upper)

SatisfiesAll(rows, p) == \A i \in 1..Len(rows) : Satisfies(rows[i], p)

FmAllVars == FmKeep \cup FmAux

\* C6: when the projector has returned, every grid point of the extended
\* space that satisfies all rows it was given satisfies every row it
\* returned.
C6_ProjectionValid ==
    fm_pc = "returned" =>
        \A p \in [FmAllVars -> GridVals] :
            SatisfiesAll(fm_input, p) => SatisfiesAll(constraints, p)

\* Both auxiliary variables were eliminated from a system with a grid
\* point, and a returned row is a combination, not a row that was given.
C6_Witness ==
    /\ fm_pc = "returned"
    /\ fm_elim = FmAux
    /\ \E p \in [FmAllVars -> GridVals] : SatisfiesAll(fm_input, p)
    /\ \E j \in 1..Len(constraints) :
          \A i \in 1..Len(SplitEqualities(fm_input)) :
              constraints[j] # SplitEqualities(fm_input)[i]

(***************************************************************************)
(* An exact test that a point q of the remaining variables extends to a    *)
(* point of the given rows, for at most two eliminated variables a, b.     *)
(* Each bound of each row is a closed half-plane in (a, b) with boundary   *)
(* ca * a + cb * b = r.  A nonempty intersection of closed half-planes     *)
(* holds the origin, or an axis point of one boundary line, or the         *)
(* intersection of two boundary lines, so these candidates decide it.      *)
(***************************************************************************)
\* <<ca, cb, r>> for every bound of every row; b = NoneKey when only a is
\* eliminated, and then cb = 0.
Boundaries(rows, a, b, q) ==
    UNION {{<<CoefOrZero(rows[i], a), CoefOrZero(rows[i], b),
              FSub(bd, RatOf(RowValue(rows[i], q)))>>
            : bd \in {rows[i].lower, rows[i].upper} \ {None}}
           : i \in 1..Len(rows)}

CandidatePoints(rows, a, b, q) ==
    LET H == Boundaries(rows, a, b, q)
        onA == {<<FDiv(h[3], h[1]), Zero>> : h \in {g \in H : ~FIsZero(g[1])}}
        onB == {<<Zero, FDiv(h[3], h[2])>> : h \in {g \in H : ~FIsZero(g[2])}}
        Det(g, h) == FSub(FMul(g[1], h[2]), FMul(g[2], h[1]))
        cross == {<<FDiv(FSub(FMul(gh[1][3], gh[2][2]), FMul(gh[1][2], gh[2][3])),
                         Det(gh[1], gh[2])),
                    FDiv(FSub(FMul(gh[1][1], gh[2][3]), FMul(gh[1][3], gh[2][1])),
                         Det(gh[1], gh[2]))>>
                  : gh \in {pr \in H \X H : ~FIsZero(Det(pr[1], pr[2]))}}
    IN  {<<Zero, Zero>>} \cup onA \cup onB \cup cross

Extend(q, a, b, e) ==
    [v \in DOMAIN q \cup ({a, b} \ {NoneKey}) |->
        IF v = a THEN e[1] ELSE IF v = b THEN e[2] ELSE q[v]]

Extendable(rows, elim, q) ==
    IF elim = {} THEN SatisfiesAll(rows, q)
    ELSE LET a == CHOOSE v \in elim : TRUE
             b == IF elim = {a} THEN NoneKey ELSE CHOOSE v \in elim \ {a} : TRUE
         IN  \E e \in CandidatePoints(rows, a, b, q) :
                SatisfiesAll(rows, Extend(q, a, b, e))

\* C7: when the projector has returned, no returned row has a nonzero
\* coefficient on an eliminated variable, and every grid point of the
\* remaining variables that satisfies all returned rows extends, by some
\* values of the eliminated variables, to a point satisfying all rows the
\* projector was given.
C7_ExactProjection ==
    fm_pc = "returned" =>
        /\ \A j \in 1..Len(constraints) : \A v \in fm_elim :
              Coef(constraints[j], v) = None \/ FIsZero(Coef(constraints[j], v))
        /\ \A q \in [FmAllVars \ fm_elim -> GridVals] :
              SatisfiesAll(constraints, q) => Extendable(fm_input, fm_elim, q)

\* Both auxiliary variables were eliminated, and the returned rows accept
\* some grid points of the remaining variable and reject others.
C7_Witness ==
    /\ fm_pc = "returned"
    /\ fm_elim = FmAux
    /\ \E q \in [FmAllVars \ fm_elim -> GridVals] : SatisfiesAll(constraints, q)
    /\ \E q \in [FmAllVars \ fm_elim -> GridVals] : ~SatisfiesAll(constraints, q)

\* C15: after the scaling, the coefficient of the eliminated variable is
\* exactly -1 in a row that was lower-bounded with a negative coefficient
\* or upper-bounded with a positive one, and exactly +1 in a row that was
\* lower-bounded with a positive coefficient or upper-bounded with a
\* negative one.
C15_PivotIsUnit ==
    fp_pc \in {"add", "added"} =>
        \A i \in 1..2 :
            LET row == fp_rows[i]
            IN  /\ ((row.side = "lower" /\ row.coef < 0)
                        \/ (row.side = "upper" /\ row.coef > 0))
                      => fp_scaled[i] = <<-1, 0>>
                /\ ((row.side = "lower" /\ row.coef > 0)
                        \/ (row.side = "upper" /\ row.coef < 0))
                      => fp_scaled[i] = <<1, 0>>

\* C7, in the arithmetic of the build: the sum of a row of leq_list and a
\* row of geq_list has coefficient exactly 0 on the eliminated variable.
C7_PivotCancels ==
    (fp_pc = "added" /\ fp_sum # <<>>) => fp_sum = <<0>>

\* The rows of the two buckets for the variable the_var.
Buckets(the_var) ==
    RangeOf(leq_list(constraints, the_var)) \cup RangeOf(geq_list(constraints, the_var))

\* C16: on rows that each carry a bound, add_linear_constraints never
\* raises: whichever variable is popped next, every row of the two buckets
\* carries one bound only, the lower one, so every pair has a common side.
C16_NoLeqGeqError ==
    /\ fm_pc # "RuntimeError"
    /\ fm_pc = "eliminate" =>
          \A the_var \in vars_to_eliminate :
              /\ \A cons \in Buckets(the_var) : cons.lower # None /\ cons.upper = None
              /\ ~FmRaises(constraints, the_var)

\* Rows were paired in a system that held an equality and a row with an
\* upper bound only.
C16_Witness ==
    /\ fm_pc = "eliminate"
    /\ \A i \in 1..Len(fm_input) :
          fm_input[i].lower # None \/ fm_input[i].upper # None
    /\ \E i \in 1..Len(fm_input) : HasBoth(fm_input[i])
    /\ \E i \in 1..Len(fm_input) :
          fm_input[i].lower = None /\ fm_input[i].upper # None
    /\ \E the_var \in vars_to_eliminate :
          /\ Len(leq_list(constraints, the_var)) > 0
          /\ Len(geq_list(constraints, the_var)) > 0

RECURSIVE Orders(_)
\* The sequences that list every element of S once.
Orders(S) ==
    IF S = {} THEN {<<>>}
    ELSE UNION {{<<v>> \o o : o \in Orders(S \ {v})} : v \in S}

\* C8: when the projector has returned, its rows and the rows obtained by
\* eliminating the same variables in any order are satisfied by the same
\* grid points of the remaining variables.
C8_OrderIndependent ==
    fm_pc = "returned" =>
        \A order \in Orders(fm_elim) :
            \A q \in [FmAllVars \ fm_elim -> GridVals] :
                SatisfiesAll(constraints, q)
                    <=> SatisfiesAll(fm_elimination(SplitEqualities(fm_input), order), q)

\* Two orders of elimination returned different lists of rows, and some
\* grid point of the remaining variable satisfies the returned rows.
C8_Witness ==
    /\ fm_pc = "returned"
    /\ fm_elim = FmAux
    /\ \E o1, o2 \in Orders(fm_elim) :
          fm_elimination(SplitEqualities(fm_input), o1)
              # fm_elimination(SplitEqualities(fm_input), o2)
    /\ \E q \in [FmAllVars \ fm_elim -> GridVals] : SatisfiesAll(constraints, q)

=============================================================================
